---- MODULE Spec2Model ----
(***************************************************************************)
(* Model of src/style_checker.py (class StyleChecker): the five producers  *)
(* of the (text, styles) stream, find_text and the boundary lookup of      *)
(* check_message.                                                          *)
(*                                                                         *)
(* A Python str is a sequence of characters; a character is a TLA+ string. *)
(* Python indexes are kept 0-based: At(s, k) is s[k].                      *)
(***************************************************************************)
EXTENDS Integers, Sequences, FiniteSets, TLC

VARIABLES
    fmt,            \* the file's extension, as load_file dispatches on it
    decodable,      \* whether the file's bytes decode / its container opens
    pc,             \* position in load_file / the parser / find_text / the report
    outcome,        \* "none", "returned" or "raised": how load_file ended
    content,        \* _parse_rtf: the decoded content
    i,              \* _parse_rtf: the scan index
    bold_state,     \* _parse_rtf
    italic_state,   \* _parse_rtf
    underline_state,\* _parse_rtf
    stack,          \* tree walks: current_style of every active call, root first
    leaf_chars,     \* tree walks: the characters of the text leaves visited so far
    doc,            \* _parse_docx: doc.paragraphs, each a sequence of runs
    para_idx,       \* _parse_docx: position of the paragraph loop
    run_idx,        \* _parse_docx: position of the run loop
    ch_idx,         \* _parse_docx: position of the character loop
    npages,         \* _parse_pdf: len(pdf.pages)
    page_idx,       \* _parse_pdf: position of the page loop
    text,           \* the flattened text built so far
    styles,         \* the style list built so far
    origin,         \* per emitted style: where it came from (rtf: index, tree: depth,
                    \* docx: paragraph, pdf: page)
    haystack,       \* find_text
    needle,         \* find_text
    result,         \* find_text's return value
    start,          \* check_message: the match
    end,            \* check_message: the match
    before_char,    \* check_message
    after_char      \* check_message

loadVars == <<fmt, decodable>>
rtfVars == <<content, i, bold_state, italic_state, underline_state>>
treeVars == <<stack, leaf_chars>>
docxVars == <<doc, para_idx, run_idx, ch_idx>>
pdfVars == <<npages, page_idx>>
outVars == <<text, styles, origin>>
findVars == <<haystack, needle, result>>
reportVars == <<start, end, before_char, after_char>>
vars == <<fmt, decodable, pc, outcome, content, i, bold_state, italic_state,
          underline_state, stack, leaf_chars, doc, para_idx, run_idx, ch_idx,
          npages, page_idx, text, styles, origin, haystack, needle, result,
          start, end, before_char, after_char>>

(***************************************************************************)
(* Bounds of the model.                                                    *)
(***************************************************************************)
MaxRtfLen == 3
MaxSeg == 2
MaxDepth == 3
MaxChars == 1
MaxParas == 2
MaxRuns == 2
MaxPages == 2
MaxGlyphs == 2
MaxText == 4
MaxPhrase == 3
MaxStream == 3

(***************************************************************************)
(* Characters and Python's str predicates on them.                         *)
(***************************************************************************)
ESC == "\\"
NL == "\n"
TAB == "\t"
NUL == "NUL"

At(s, k) == s[k + 1]

\* Python's s[a:b], for 0 <= a: the bounds are clamped to the string
Slice(s, a, b) == SubSeq(s, a + 1, IF b < Len(s) THEN b ELSE Len(s))

IsSpace(c) == c \in {" ", NL, TAB}

IsPrintable(c) == c \notin {NL, TAB, NUL}

\* str.strip() of a string is non-empty iff some character is not whitespace
StripTruthy(s) == \E k \in DOMAIN s : ~IsSpace(s[k])

None == [none |-> TRUE]

DefaultStyle == [bold |-> FALSE, italic |-> FALSE, underline |-> FALSE, color |-> "black"]

Styled(c, st) ==
    [char |-> c, bold |-> st.bold, italic |-> st.italic,
     underline |-> st.underline, color |-> st.color]

Flags == {"bold", "italic", "underline"}

Formats == {".html", ".htm", ".docx", ".rtf", ".md", ".pdf", ".txt"}

(***************************************************************************)
(* load_file: dispatch on the extension.                                   *)
(***************************************************************************)
LoadFile ==
    /\ pc = "load"
    /\ fmt # ".txt"
    /\ pc' = CASE fmt \in {".html", ".htm"} -> "html_open"
               [] fmt = ".docx" -> "docx_open"
               [] fmt = ".rtf" -> "rtf_open"
               [] fmt = ".md" -> "md_open"
               [] fmt = ".pdf" -> "pdf_open"
    /\ UNCHANGED <<loadVars, outcome, rtfVars, treeVars, docxVars, pdfVars, outVars,
                   findVars, reportVars>>

LoadUnsupported ==
    /\ pc = "load"
    /\ fmt = ".txt"
    /\ pc' = "done"
    /\ outcome' = "raised"
    /\ UNCHANGED <<loadVars, rtfVars, treeVars, docxVars, pdfVars, outVars,
                   findVars, reportVars>>

(***************************************************************************)
(* _parse_rtf: the control-word scan.                                      *)
(***************************************************************************)
RtfChars == {ESC, "b", "i", "u", "l", "0", " ", NL, "{", "x", NUL}

SegChars == {"x", " ", NL, "0"}

RECURSIVE SeqsUpTo(_, _)
SeqsUpTo(S, n) ==
    IF n = 0 THEN {<<>>}
    ELSE LET shorter == SeqsUpTo(S, n - 1)
         IN shorter \cup {Append(s, c) : s \in {t \in shorter : Len(t) = n - 1}, c \in S}

\* inputs of the shape bold-on word, segment, bold-off word, segment
ShapedRtf ==
    {<<ESC, "b", c>> \o t1 \o <<ESC, "b", o>> \o t2 :
        c \in RtfChars \ {"0", " "}, t1 \in SeqsUpTo(SegChars, MaxSeg),
        o \in {"0", " "}, t2 \in SeqsUpTo(SegChars, MaxSeg)}

RtfInputs == SeqsUpTo(RtfChars, MaxRtfLen) \cup ShapedRtf

\* the "while i < len(content) and content[i] not in ' \n': i += 1" loops
RECURSIVE SkipControl(_, _)
SkipControl(s, k) ==
    IF k < Len(s) /\ At(s, k) \notin {" ", NL} THEN SkipControl(s, k + 1) ELSE k

\* the flag a control word at index k sets, its argument being at index k + off
FlagOffOnly0(s, k, off) ==
    ~(k + off < Len(s) /\ At(s, k + off) = "0")

FlagAfter(s, k, off) ==
    ~(k + off < Len(s) /\ At(s, k + off) \in {"0", " "})

ParseRtfOpen ==
    /\ pc = "rtf_open"
    /\ \E c \in RtfInputs : content' = c
    /\ i' = 0
    /\ bold_state' = FALSE
    /\ italic_state' = FALSE
    /\ underline_state' = FALSE
    /\ text' = <<>>
    /\ styles' = <<>>
    /\ origin' = <<>>
    /\ pc' = "rtf_scan"
    /\ UNCHANGED <<loadVars, outcome, treeVars, docxVars, pdfVars, findVars, reportVars>>

RtfRest == <<loadVars, outcome, content, treeVars, docxVars, pdfVars, findVars, reportVars>>

RtfControl(word) ==
    /\ pc = "rtf_scan"
    /\ i < Len(content)
    /\ At(content, i) = ESC
    /\ i + 1 < Len(content)
    /\ word = ( IF At(content, i + 1) = "b" THEN "b"
                ELSE IF At(content, i + 1) = "i" THEN "i"
                ELSE IF Slice(content, i + 1, i + 3) = <<"u", "l">> THEN "ul"
                ELSE "other" )
    /\ i' = SkipControl(content, i + 1) + 1
    /\ UNCHANGED <<pc, outVars, RtfRest>>

RtfBold ==
    /\ RtfControl("b")
    /\ bold_state' = FlagAfter(content, i + 1, 1)
    /\ UNCHANGED <<italic_state, underline_state>>

RtfItalic ==
    /\ RtfControl("i")
    /\ italic_state' = FlagAfter(content, i + 1, 1)
    /\ UNCHANGED <<bold_state, underline_state>>

RtfUnderline ==
    /\ RtfControl("ul")
    /\ underline_state' = FlagAfter(content, i + 1, 2)
    /\ UNCHANGED <<bold_state, italic_state>>

RtfOther ==
    /\ RtfControl("other")
    /\ UNCHANGED <<bold_state, italic_state, underline_state>>

\* the escape is the last character: nothing follows to read
RtfEscapeAtEnd ==
    /\ pc = "rtf_scan"
    /\ i < Len(content)
    /\ At(content, i) = ESC
    /\ ~(i + 1 < Len(content))
    /\ i' = i + 2
    /\ UNCHANGED <<pc, bold_state, italic_state, underline_state, outVars, RtfRest>>

RtfBrace ==
    /\ pc = "rtf_scan"
    /\ i < Len(content)
    /\ At(content, i) \in {"{", "}"}
    /\ i' = i + 1
    /\ UNCHANGED <<pc, bold_state, italic_state, underline_state, outVars, RtfRest>>

RtfEmit ==
    /\ pc = "rtf_scan"
    /\ i < Len(content)
    /\ At(content, i) \notin {ESC, "{", "}"}
    /\ IsPrintable(At(content, i)) \/ IsSpace(At(content, i))
    /\ text' = Append(text, At(content, i))
    /\ styles' = Append(styles,
                        [char |-> <<At(content, i)>>, bold |-> bold_state,
                         italic |-> italic_state, underline |-> underline_state,
                         color |-> "black"])
    /\ origin' = Append(origin, i)
    /\ i' = i + 1
    /\ UNCHANGED <<pc, bold_state, italic_state, underline_state, RtfRest>>

RtfDrop ==
    /\ pc = "rtf_scan"
    /\ i < Len(content)
    /\ At(content, i) \notin {ESC, "{", "}"}
    /\ ~(IsPrintable(At(content, i)) \/ IsSpace(At(content, i)))
    /\ i' = i + 1
    /\ UNCHANGED <<pc, bold_state, italic_state, underline_state, outVars, RtfRest>>

RtfReturn ==
    /\ pc = "rtf_scan"
    /\ ~(i < Len(content))
    /\ pc' = "done"
    /\ outcome' = "returned"
    /\ UNCHANGED <<loadVars, rtfVars, treeVars, docxVars, pdfVars, outVars,
                   findVars, reportVars>>

NextRtf ==
    \/ ParseRtfOpen
    \/ RtfBold
    \/ RtfItalic
    \/ RtfUnderline
    \/ RtfOther
    \/ RtfEscapeAtEnd
    \/ RtfBrace
    \/ RtfEmit
    \/ RtfDrop
    \/ RtfReturn

(***************************************************************************)
(* _parse_html: the walk of extract_from_element. The tree is met as the   *)
(* walk goes: a child is an element (with a tag name and attributes) or a  *)
(* character of a text leaf, or the children are exhausted.                *)
(***************************************************************************)
HtmlTags == {"b", "strong", "i", "em", "u", "span"}

\* the inline styles met, each the sequence of its declarations (';' between them)
StyleStrings ==
    {<<>>,
     <<"font-weight: bold">>,
     <<"font-weight:bold", "color:red">>,
     <<"font-style:italic">>,
     <<"text-decoration:underline">>,
     <<"font-weight:normal", "font-style:normal", "text-decoration:none">>}

HtmlAttrs ==
    {[has_style |-> FALSE, style |-> <<>>]}
        \cup {[has_style |-> TRUE, style |-> ds] : ds \in StyleStrings}

\* "sub in style_str"
StyleContains(style_str, sub) ==
    \E k \in DOMAIN style_str :
        \/ style_str[k] = sub
        \/ sub = "color:" /\ style_str[k] = "color:red"

\* re.search(r'color:\s*([^;]+)', style_str).group(1).strip(), the first match
ColorMatch(style_str) ==
    LET hits == {k \in DOMAIN style_str : StyleContains(<<style_str[k]>>, "color:")}
    IN IF hits = {} THEN "" ELSE "red"

\* lines 45-65 with current_style built from a fresh default instead of styles.copy()
HtmlStyleNoCopy(inherited, name, attrs) ==
    LET style_str == attrs.style
        color_match == ColorMatch(style_str)
    IN [bold |-> \/ name \in {"b", "strong"}
                 \/ /\ attrs.has_style
                    /\ \/ StyleContains(style_str, "font-weight:bold")
                       \/ StyleContains(style_str, "font-weight: bold"),
        italic |-> \/ name \in {"i", "em"}
                   \/ attrs.has_style /\ StyleContains(style_str, "font-style:italic"),
        underline |-> \/ name = "u"
                      \/ attrs.has_style /\ StyleContains(style_str, "text-decoration:underline"),
        color |-> IF attrs.has_style /\ color_match # "" THEN color_match ELSE "black"]

\* lines 45-65: current_style of an element, from the styles passed to its call
HtmlStyle(inherited, name, attrs) ==
    LET style_str == attrs.style
        color_match == ColorMatch(style_str)
    IN [bold |-> \/ inherited.bold
                 \/ name \in {"b", "strong"}
                 \/ /\ attrs.has_style
                    /\ \/ StyleContains(style_str, "font-weight:bold")
                       \/ StyleContains(style_str, "font-weight: bold"),
        italic |-> \/ inherited.italic
                   \/ name \in {"i", "em"}
                   \/ attrs.has_style /\ StyleContains(style_str, "font-style:italic"),
        underline |-> \/ inherited.underline
                      \/ name = "u"
                      \/ attrs.has_style /\ StyleContains(style_str, "text-decoration:underline"),
        color |-> IF attrs.has_style /\ color_match # "" THEN color_match
                  ELSE inherited.color]

LeafChars == {"a", " ", NL}

\* "c.strip() or c == ' '"
KeepChar(c) == StripTruthy(<<c>>) \/ c = " "

Top == stack[Len(stack)]

TreeRest == <<loadVars, rtfVars, docxVars, pdfVars, findVars, reportVars>>

\* open(..., encoding='utf-8').read() raises on undecodable bytes; nothing catches it
ParseHtmlDecodeError ==
    /\ pc = "html_open"
    /\ ~decodable
    /\ pc' = "done"
    /\ outcome' = "raised"
    /\ UNCHANGED <<treeVars, outVars, TreeRest>>

\* the root call: extract_from_element(soup.find('body') or soup)
ParseHtmlOpen ==
    /\ pc = "html_open"
    /\ decodable
    /\ \E name \in {"body", "[document]"}, attrs \in HtmlAttrs :
        /\ name = "[document]" => ~attrs.has_style
        /\ stack' = <<HtmlStyle(DefaultStyle, name, attrs)>>
    /\ leaf_chars' = <<>>
    /\ text' = <<>>
    /\ styles' = <<>>
    /\ origin' = <<>>
    /\ pc' = "html_walk"
    /\ UNCHANGED <<outcome, TreeRest>>

\* a child with children: the recursive call
HtmlEnter ==
    /\ pc = "html_walk"
    /\ Len(stack) < MaxDepth
    /\ \E name \in HtmlTags, attrs \in HtmlAttrs :
        stack' = Append(stack, HtmlStyle(Top, name, attrs))
    /\ UNCHANGED <<pc, outcome, leaf_chars, outVars, TreeRest>>

\* a character of a text child that passes the filter
HtmlEmit ==
    /\ pc = "html_walk"
    /\ Len(leaf_chars) < MaxChars
    /\ \E c \in LeafChars :
        /\ KeepChar(c)
        /\ leaf_chars' = Append(leaf_chars, c)
        /\ text' = Append(text, c)
        /\ styles' = Append(styles, Styled(<<c>>, Top))
    /\ origin' = Append(origin, Len(stack))
    /\ UNCHANGED <<pc, outcome, stack, TreeRest>>

\* a character of a text child that does not
HtmlSkip ==
    /\ pc = "html_walk"
    /\ Len(leaf_chars) < MaxChars
    /\ \E c \in LeafChars :
        /\ ~KeepChar(c)
        /\ leaf_chars' = Append(leaf_chars, c)
    /\ UNCHANGED <<pc, outcome, stack, outVars, TreeRest>>

\* the children are exhausted: the call returns to its caller
HtmlReturn ==
    /\ pc = "html_walk"
    /\ Len(stack) > 1
    /\ stack' = SubSeq(stack, 1, Len(stack) - 1)
    /\ UNCHANGED <<pc, outcome, leaf_chars, outVars, TreeRest>>

\* the root call returns: return text_data, char_styles
HtmlDone ==
    /\ pc = "html_walk"
    /\ Len(stack) = 1
    /\ stack' = <<>>
    /\ pc' = "done"
    /\ outcome' = "returned"
    /\ UNCHANGED <<leaf_chars, outVars, TreeRest>>

NextHtml ==
    \/ ParseHtmlDecodeError
    \/ ParseHtmlOpen
    \/ HtmlEnter
    \/ HtmlEmit
    \/ HtmlSkip
    \/ HtmlReturn
    \/ HtmlDone

(***************************************************************************)
(* _parse_markdown: the walk of process_md_element over the converted tree.*)
(***************************************************************************)
MdTags == {"strong", "b", "em", "i", "code", "h1", "h6", "p"}

\* lines 258-268: styles of an element, from the inherited ones
MdStyle(inherited, name) ==
    IF name \in {"strong", "b"} THEN [inherited EXCEPT !.bold = TRUE]
    ELSE IF name \in {"em", "i"} THEN [inherited EXCEPT !.italic = TRUE]
    ELSE IF name = "code" THEN [inherited EXCEPT !.color = "red"]
    ELSE IF name \in {"h1", "h2", "h3", "h4", "h5", "h6"}
         THEN [inherited EXCEPT !.bold = TRUE, !.color = "blue"]
    ELSE inherited

ParseMdDecodeError ==
    /\ pc = "md_open"
    /\ ~decodable
    /\ pc' = "done"
    /\ outcome' = "raised"
    /\ UNCHANGED <<treeVars, outVars, TreeRest>>

\* the root call: process_md_element(soup.body)
ParseMdOpen ==
    /\ pc = "md_open"
    /\ decodable
    /\ stack' = <<MdStyle(DefaultStyle, "body")>>
    /\ leaf_chars' = <<>>
    /\ text' = <<>>
    /\ styles' = <<>>
    /\ origin' = <<>>
    /\ pc' = "md_walk"
    /\ UNCHANGED <<outcome, TreeRest>>

MdEnter ==
    /\ pc = "md_walk"
    /\ Len(stack) < MaxDepth
    /\ \E name \in MdTags : stack' = Append(stack, MdStyle(Top, name))
    /\ UNCHANGED <<pc, outcome, leaf_chars, outVars, TreeRest>>

\* a character of a text child: appended whatever it is
MdEmit ==
    /\ pc = "md_walk"
    /\ Len(leaf_chars) < MaxChars
    /\ \E c \in LeafChars :
        /\ leaf_chars' = Append(leaf_chars, c)
        /\ text' = Append(text, c)
        /\ styles' = Append(styles, Styled(<<c>>, Top))
    /\ origin' = Append(origin, Len(stack))
    /\ UNCHANGED <<pc, outcome, stack, TreeRest>>

MdReturn ==
    /\ pc = "md_walk"
    /\ Len(stack) > 1
    /\ stack' = SubSeq(stack, 1, Len(stack) - 1)
    /\ UNCHANGED <<pc, outcome, leaf_chars, outVars, TreeRest>>

MdDone ==
    /\ pc = "md_walk"
    /\ Len(stack) = 1
    /\ stack' = <<>>
    /\ pc' = "done"
    /\ outcome' = "returned"
    /\ UNCHANGED <<leaf_chars, outVars, TreeRest>>

NextMd ==
    \/ ParseMdDecodeError
    \/ ParseMdOpen
    \/ MdEnter
    \/ MdEmit
    \/ MdReturn
    \/ MdDone

(***************************************************************************)
(* _parse_docx: paragraphs of runs.                                        *)
(***************************************************************************)
\* bool(x) of a run attribute: python-docx gives True, False or None
PyBool(x) == x = "True"

\* f"rgb({rgb.red},{rgb.green},{rgb.blue})"
RgbString(rgb) ==
    CASE rgb = <<255, 0, 0>> -> "rgb(255,0,0)"
      [] rgb = <<0, 0, 0>> -> "rgb(0,0,0)"

\* lines 96-99; rgb is <<>> when the run has no colour of its own
ColorVal(r) == IF r.rgb # <<>> THEN RgbString(r.rgb) ELSE "black"

Run(t, b, it, u, rgb) == [text |-> t, bold |-> b, italic |-> it, underline |-> u, rgb |-> rgb]

DocxRuns ==
    {Run(<<"a">>, "None", "None", "None", <<>>),
     Run(<<"b", "a">>, "True", "False", "None", <<255, 0, 0>>),
     Run(<<>>, "False", "True", "True", <<0, 0, 0>>)}

\* one paragraph: "Hello " unstyled, then "World" bold
HelloDoc ==
    << << Run(<<"H", "e", "l", "l", "o", " ">>, "None", "None", "None", <<>>),
          Run(<<"W", "o", "r", "l", "d">>, "True", "None", "None", <<>>) >> >>

DocxDocs == SeqsUpTo(SeqsUpTo(DocxRuns, MaxRuns), MaxParas) \cup {HelloDoc}

DocxRest == <<loadVars, rtfVars, treeVars, doc, pdfVars, findVars, reportVars>>

\* docx.Document(filepath) raises on a file it cannot open; nothing catches it
ParseDocxError ==
    /\ pc = "docx_open"
    /\ ~decodable
    /\ pc' = "done"
    /\ outcome' = "raised"
    /\ UNCHANGED <<docxVars, outVars, loadVars, rtfVars, treeVars, pdfVars, findVars, reportVars>>

ParseDocxOpen ==
    /\ pc = "docx_open"
    /\ decodable
    /\ \E d \in DocxDocs : doc' = d
    /\ para_idx' = 0
    /\ run_idx' = 0
    /\ ch_idx' = 0
    /\ text' = <<>>
    /\ styles' = <<>>
    /\ origin' = <<>>
    /\ pc' = "docx_scan"
    /\ UNCHANGED <<outcome, loadVars, rtfVars, treeVars, pdfVars, findVars, reportVars>>

CurPara == At(doc, para_idx)

CurRun == At(CurPara, run_idx)

\* lines 93-107: one character of the run
DocxChar ==
    /\ pc = "docx_scan"
    /\ para_idx < Len(doc)
    /\ run_idx < Len(CurPara)
    /\ ch_idx < Len(CurRun.text)
    /\ text' = Append(text, At(CurRun.text, ch_idx))
    /\ styles' = Append(styles,
                        [char |-> <<At(CurRun.text, ch_idx)>>,
                         bold |-> PyBool(CurRun.bold),
                         italic |-> PyBool(CurRun.italic),
                         underline |-> PyBool(CurRun.underline),
                         color |-> ColorVal(CurRun)])
    /\ origin' = Append(origin, para_idx)
    /\ ch_idx' = ch_idx + 1
    /\ UNCHANGED <<pc, outcome, para_idx, run_idx, DocxRest>>

\* the run's text is exhausted: the next run
DocxNextRun ==
    /\ pc = "docx_scan"
    /\ para_idx < Len(doc)
    /\ run_idx < Len(CurPara)
    /\ ch_idx = Len(CurRun.text)
    /\ run_idx' = run_idx + 1
    /\ ch_idx' = 0
    /\ UNCHANGED <<pc, outcome, para_idx, outVars, DocxRest>>

\* the same step, the paragraph's newline left out
DocxParaEndNoNewline ==
    /\ pc = "docx_scan"
    /\ para_idx < Len(doc)
    /\ run_idx = Len(CurPara)
    /\ para_idx' = para_idx + 1
    /\ run_idx' = 0
    /\ UNCHANGED <<pc, outcome, ch_idx, outVars, DocxRest>>

\* lines 109-116: the paragraph's runs are exhausted: the newline, the next paragraph
DocxParaEnd ==
    /\ pc = "docx_scan"
    /\ para_idx < Len(doc)
    /\ run_idx = Len(CurPara)
    /\ text' = Append(text, NL)
    /\ styles' = Append(styles, Styled(<<NL>>, DefaultStyle))
    /\ origin' = Append(origin, para_idx)
    /\ para_idx' = para_idx + 1
    /\ run_idx' = 0
    /\ UNCHANGED <<pc, outcome, ch_idx, DocxRest>>

DocxReturn ==
    /\ pc = "docx_scan"
    /\ para_idx = Len(doc)
    /\ pc' = "done"
    /\ outcome' = "returned"
    /\ UNCHANGED <<docxVars, outVars, loadVars, rtfVars, treeVars, pdfVars, findVars, reportVars>>

NextDocx ==
    \/ ParseDocxError
    \/ ParseDocxOpen
    \/ DocxChar
    \/ DocxNextRun
    \/ DocxParaEnd
    \/ DocxReturn

(***************************************************************************)
(* _parse_pdf: pages of glyphs.                                            *)
(***************************************************************************)
\* char_info.get('text', ''): the glyph's text, which the extraction library gives as
\* a string of any length (empty when the key is absent, "fi" for a ligature)
GlyphTexts == {<<>>, <<"a">>, <<" ">>, <<NL>>, <<"f", "i">>}

\* char_info.get('fontname', '')
FontNames == {"", "Arial-BoldMT", "Times-Oblique"}

\* 'bold' in font_name or 'black' in font_name, font_name lowered
FontIsBold(fontname) == fontname \in {"Arial-BoldMT"}

\* 'italic' in font_name or 'oblique' in font_name
FontIsItalic(fontname) == fontname \in {"Times-Oblique"}

PdfRest == <<loadVars, rtfVars, treeVars, doc, para_idx, run_idx, npages, findVars, reportVars>>

ParsePdfOpen ==
    /\ pc = "pdf_open"
    /\ \E n \in 1..MaxPages : npages' = n
    /\ page_idx' = 0
    /\ ch_idx' = 0
    /\ text' = <<>>
    /\ styles' = <<>>
    /\ origin' = <<>>
    /\ pc' = "pdf_scan"
    /\ UNCHANGED <<outcome, loadVars, rtfVars, treeVars, doc, para_idx, run_idx,
                   findVars, reportVars>>

\* lines 235-237: any exception of the library, at the opening or at a page
PdfError ==
    /\ pc \in {"pdf_open", "pdf_scan"}
    /\ ~decodable
    /\ text' = <<>>
    /\ styles' = <<>>
    /\ origin' = <<>>
    /\ pc' = "done"
    /\ outcome' = "returned"
    /\ UNCHANGED <<ch_idx, page_idx, PdfRest>>

\* lines 202-221: a glyph that passes the filter
PdfEmit ==
    /\ pc = "pdf_scan"
    /\ page_idx < npages
    /\ ch_idx < MaxGlyphs
    /\ \E char \in GlyphTexts, fontname \in FontNames, size \in {10, 12} :
        /\ StripTruthy(char) \/ char = <<" ">>
        /\ text' = text \o char
        /\ styles' = Append(styles,
                            [char |-> char, bold |-> FontIsBold(fontname),
                             italic |-> FontIsItalic(fontname), underline |-> FALSE,
                             color |-> "black", font_size |-> size])
    /\ origin' = Append(origin, page_idx)
    /\ ch_idx' = ch_idx + 1
    /\ UNCHANGED <<pc, outcome, page_idx, PdfRest>>

\* a glyph that does not
PdfSkip ==
    /\ pc = "pdf_scan"
    /\ page_idx < npages
    /\ ch_idx < MaxGlyphs
    /\ \E char \in GlyphTexts : ~(StripTruthy(char) \/ char = <<" ">>)
    /\ ch_idx' = ch_idx + 1
    /\ UNCHANGED <<pc, outcome, page_idx, outVars, PdfRest>>

\* lines 223-233: the page's glyphs are exhausted: the page break, the next page
PdfPageEnd ==
    /\ pc = "pdf_scan"
    /\ page_idx < npages
    /\ IF npages > 1
       THEN /\ text' = Append(text, NL)
            /\ styles' = Append(styles,
                                [char |-> <<NL>>, bold |-> FALSE, italic |-> FALSE,
                                 underline |-> FALSE, color |-> "black", font_size |-> 12])
            /\ origin' = Append(origin, page_idx)
       ELSE UNCHANGED outVars
    /\ page_idx' = page_idx + 1
    /\ ch_idx' = 0
    /\ UNCHANGED <<pc, outcome, PdfRest>>

PdfReturn ==
    /\ pc = "pdf_scan"
    /\ page_idx = npages
    /\ decodable
    /\ pc' = "done"
    /\ outcome' = "returned"
    /\ UNCHANGED <<ch_idx, page_idx, outVars, PdfRest>>

NextPdf ==
    \/ ParsePdfOpen
    \/ PdfError
    \/ PdfEmit
    \/ PdfSkip
    \/ PdfPageEnd
    \/ PdfReturn

(***************************************************************************)
(* find_text.                                                              *)
(***************************************************************************)
\* the characters of the texts and phrases searched; "Idot" is U+0130 (capital I
\* with dot above) and "cdot" is U+0307 (combining dot above)
FindChars == {"a", "A", "b", " ", "Idot"}

\* str.lower() of one character: U+0130 lowers to the two characters U+0069 U+0307
LowerChar(c) ==
    CASE c = "A" -> <<"a">>
      [] c = "B" -> <<"b">>
      [] c = "H" -> <<"h">>
      [] c = "W" -> <<"w">>
      [] c = "Idot" -> <<"i", "cdot">>
      [] OTHER -> <<c>>

RECURSIVE Lower(_)
Lower(s) == IF s = <<>> THEN <<>> ELSE LowerChar(Head(s)) \o Lower(Tail(s))

\* str.find(sub, from): the lowest index >= from where sub occurs, or -1
Find(s, sub, from) ==
    LET hits == {p \in from..(Len(s) - Len(sub)) : Slice(s, p, p + Len(sub)) = sub}
    IN IF hits = {} THEN -1 ELSE CHOOSE p \in hits : \A r \in hits : p <= r

\* str.split(): the maximal runs of non-whitespace characters
RECURSIVE SplitFrom(_, _, _)
SplitFrom(s, k, word) ==
    IF k > Len(s) THEN (IF word = <<>> THEN <<>> ELSE <<word>>)
    ELSE IF IsSpace(s[k])
         THEN (IF word = <<>> THEN <<>> ELSE <<word>>) \o SplitFrom(s, k + 1, <<>>)
         ELSE SplitFrom(s, k + 1, Append(word, s[k]))

Split(s) == SplitFrom(s, 1, <<>>)

Found(s, e) == [found |-> TRUE, start |-> s, end |-> e]

NotFound == [found |-> FALSE]

\* lines 287-290
ExactPos(hay, phrase) == Find(Lower(hay), Lower(phrase), 0)

\* lines 294-300: the fallback on the first and the last word
Fallback(hay, phrase) ==
    LET lower_hay == Lower(hay)
        words == Split(Lower(phrase))
    IN IF Len(words) > 1
       THEN LET first_word_pos == Find(lower_hay, words[1], 0)
            IN IF first_word_pos >= 0
               THEN LET last_word_pos == Find(lower_hay, words[Len(words)], first_word_pos)
                    IN IF last_word_pos >= 0
                       THEN Found(first_word_pos,
                                  last_word_pos + Len(words[Len(words)]) - 1)
                       ELSE NotFound
               ELSE NotFound
       ELSE NotFound

find_text(hay, phrase) ==
    LET pos == ExactPos(hay, phrase)
    IN IF pos >= 0 THEN Found(pos, pos + Len(phrase) - 1) ELSE Fallback(hay, phrase)

FindRest ==
    <<loadVars, outcome, rtfVars, treeVars, docxVars, pdfVars, outVars, haystack, needle,
      reportVars>>

\* return pos, pos + len(needle) - 1
FindExact ==
    /\ pc = "find"
    /\ ExactPos(haystack, needle) >= 0
    /\ result' = find_text(haystack, needle)
    /\ pc' = "found"
    /\ UNCHANGED FindRest

\* return first_word_pos, last_word_pos + len(words[-1]) - 1
FindFallback ==
    /\ pc = "find"
    /\ ExactPos(haystack, needle) < 0
    /\ Fallback(haystack, needle).found
    /\ result' = find_text(haystack, needle)
    /\ pc' = "found"
    /\ UNCHANGED FindRest

\* return None, None
FindNone ==
    /\ pc = "find"
    /\ ExactPos(haystack, needle) < 0
    /\ ~Fallback(haystack, needle).found
    /\ result' = find_text(haystack, needle)
    /\ pc' = "found"
    /\ UNCHANGED FindRest

NextFind ==
    \/ FindExact
    \/ FindFallback
    \/ FindNone

(***************************************************************************)
(* check_message: the styles before and after the match.                   *)
(***************************************************************************)
\* the lookup with the lower bound test left out: Python's styles[pos] wraps
\* a negative pos around
get_style_at_wrap(style_list, pos) ==
    IF pos < Len(style_list)
    THEN (IF pos >= 0 THEN At(style_list, pos) ELSE At(style_list, Len(style_list) + pos))
    ELSE None

get_style_at(style_list, pos) ==
    IF 0 <= pos /\ pos < Len(style_list) THEN At(style_list, pos) ELSE None

\* f'COLOR:{color}'
ColorAttr(color) ==
    CASE color = "red" -> "COLOR:red"
      [] color = "blue" -> "COLOR:blue"
      [] color = "rgb(255,0,0)" -> "COLOR:rgb(255,0,0)"
      [] color = "rgb(0,0,0)" -> "COLOR:rgb(0,0,0)"

\* f'SIZE:{font_size}'
SizeAttr(font_size) == IF font_size = 10 THEN "SIZE:10" ELSE "SIZE:12"

\* lines 309-334: "Not found", or the character and its attributes (joined by ' | ')
style_to_string(style_data) ==
    IF style_data = None THEN [text |-> "Not found"]
    ELSE LET attrs ==
                (IF style_data.bold THEN <<"BOLD">> ELSE <<>>)
                    \o (IF style_data.italic THEN <<"ITALIC">> ELSE <<>>)
                    \o (IF style_data.underline THEN <<"UNDERLINED">> ELSE <<>>)
                    \o (IF style_data.color # "black"
                        THEN <<ColorAttr(style_data.color)>> ELSE <<>>)
                    \o (IF "font_size" \in DOMAIN style_data
                        THEN <<SizeAttr(style_data.font_size)>> ELSE <<>>)
         IN [char |-> style_data.char,
             attrs |-> IF attrs = <<>> THEN <<"NORMAL">> ELSE attrs]

\* the styles a stream is made of
StreamStyles ==
    {Styled(<<"a">>, DefaultStyle),
     Styled(<<"b">>, [DefaultStyle EXCEPT !.bold = TRUE]),
     Styled(<<NL>>, DefaultStyle)}

\* lines 357-358
Report ==
    /\ pc = "report"
    /\ before_char' = get_style_at(styles, start - 1)
    /\ after_char' = get_style_at(styles, end + 1)
    /\ pc' = "reported"
    /\ UNCHANGED <<loadVars, outcome, rtfVars, treeVars, docxVars, pdfVars, outVars,
                   findVars, start, end>>

Idle ==
    [fmt |-> ".rtf", decodable |-> TRUE, pc |-> "load", outcome |-> "none",
     content |-> <<>>, i |-> 0, bold_state |-> FALSE, italic_state |-> FALSE,
     underline_state |-> FALSE, stack |-> <<>>, leaf_chars |-> <<>>, doc |-> <<>>,
     para_idx |-> 0, run_idx |-> 0, ch_idx |-> 0, npages |-> 0, page_idx |-> 0,
     text |-> <<>>, styles |-> <<>>, origin |-> <<>>, haystack |-> <<>>,
     needle |-> <<>>, result |-> [found |-> FALSE], start |-> 0, end |-> 0,
     before_char |-> None, after_char |-> None]

\* the state st, a record with a field per variable
InitFrom(st) ==
    /\ fmt = st.fmt
    /\ decodable = st.decodable
    /\ pc = st.pc
    /\ outcome = st.outcome
    /\ content = st.content
    /\ i = st.i
    /\ bold_state = st.bold_state
    /\ italic_state = st.italic_state
    /\ underline_state = st.underline_state
    /\ stack = st.stack
    /\ leaf_chars = st.leaf_chars
    /\ doc = st.doc
    /\ para_idx = st.para_idx
    /\ run_idx = st.run_idx
    /\ ch_idx = st.ch_idx
    /\ npages = st.npages
    /\ page_idx = st.page_idx
    /\ text = st.text
    /\ styles = st.styles
    /\ origin = st.origin
    /\ haystack = st.haystack
    /\ needle = st.needle
    /\ result = st.result
    /\ start = st.start
    /\ end = st.end
    /\ before_char = st.before_char
    /\ after_char = st.after_char

InitRtf == \E d \in BOOLEAN : InitFrom([Idle EXCEPT !.fmt = ".rtf", !.decodable = d, !.pc = "rtf_open"])

SpecRtf == InitRtf /\ [][NextRtf]_vars

InitTree ==
    \E d \in BOOLEAN :
        \/ InitFrom([Idle EXCEPT !.fmt = ".html", !.decodable = d, !.pc = "html_open"])
        \/ InitFrom([Idle EXCEPT !.fmt = ".md", !.decodable = d, !.pc = "md_open"])

NextTree == NextHtml \/ NextMd

SpecTree == InitTree /\ [][NextTree]_vars

InitDocx ==
    \E d \in BOOLEAN :
        InitFrom([Idle EXCEPT !.fmt = ".docx", !.decodable = d, !.pc = "docx_open"])

SpecDocx == InitDocx /\ [][NextDocx]_vars

\* load_file on a file of any extension
Init ==
    \E f \in Formats, d \in BOOLEAN :
        InitFrom([Idle EXCEPT !.fmt = f, !.decodable = d, !.pc = "load"])

Next ==
    \/ LoadFile
    \/ LoadUnsupported
    \/ NextHtml
    \/ NextDocx
    \/ NextRtf
    \/ NextMd
    \/ NextPdf

Spec == Init /\ [][Next]_vars

\* find_text on any text and any phrase
InitFind ==
    \E h \in SeqsUpTo(FindChars, MaxText), n \in SeqsUpTo(FindChars, MaxPhrase) :
        InitFrom([Idle EXCEPT !.pc = "find", !.haystack = h, !.needle = n])

SpecFind == InitFind /\ [][NextFind]_vars

\* the report on any stream and any match that is a span of it
InitReport ==
    \E st \in SeqsUpTo(StreamStyles, MaxStream) :
        \E s \in 0..(Len(st) - 1) :
            \E e \in s..(Len(st) - 1) :
                InitFrom([Idle EXCEPT !.pc = "report", !.styles = st, !.start = s, !.end = e])

NextReport == Report

SpecReport == InitReport /\ [][NextReport]_vars

(***************************************************************************)
(* C2: the bold control words of the RTF scan.                             *)
(***************************************************************************)
\* content is: escape, 'b', a character neither '0' nor ' ', a segment T1 without
\* escape, then at index q: escape, 'b', '0' or ' ', then a segment T2 without escape
C2Shape(q) ==
    /\ q >= 3
    /\ q + 2 < Len(content)
    /\ At(content, 0) = ESC
    /\ At(content, 1) = "b"
    /\ At(content, 2) \notin {"0", " "}
    /\ At(content, q) = ESC
    /\ At(content, q + 1) = "b"
    /\ At(content, q + 2) \in {"0", " "}
    /\ \A k \in 3..(Len(content) - 1) : k # q => At(content, k) # ESC

\* the characters emitted from T1 are bold and those emitted from T2 are not
C2Segments(q) ==
    \A k \in DOMAIN styles :
        /\ (origin[k] >= 3 /\ origin[k] < q) => styles[k].bold
        /\ origin[k] > q + 2 => ~styles[k].bold

\* the run of non-whitespace characters that starts the bold-on word ends
\* (at a space or a newline) before the bold-off word starts
C2Delimited(q) == \E d \in 2..(q - 1) : At(content, d) \in {" ", NL}

\* C2 as stated: for every input of the shape bold-on word, T1, bold-off word, T2,
\* every character emitted from T1 carries bold = true and every character emitted
\* from T2 carries bold = false. (Stated for the bold-on words whose third character
\* is not itself an escape: a violation there is a violation of the claim.)
C2_AsStated ==
    (fmt = ".rtf" /\ pc \in {"rtf_scan", "done"}) =>
        \A q \in 0..Len(content) :
            (C2Shape(q) /\ At(content, 2) # ESC) => C2Segments(q)

\* C2 as amended: the same, for the inputs in which the bold-on word's run of
\* non-whitespace characters is ended by a space or a newline before the bold-off
\* word (the run, T1's characters up to that delimiter included, is consumed as the
\* control word).
C2_BoldSegments ==
    (fmt = ".rtf" /\ pc \in {"rtf_scan", "done"}) =>
        \A q \in 0..Len(content) : (C2Shape(q) /\ C2Delimited(q)) => C2Segments(q)

\* C2 witness: a finished scan of such an input that emitted a bold character of T1
\* and a non-bold character of T2
C2_Witness ==
    /\ fmt = ".rtf"
    /\ pc = "done"
    /\ \E q \in 0..Len(content) :
        /\ C2Shape(q)
        /\ C2Delimited(q)
        /\ \E k \in DOMAIN styles : origin[k] >= 3 /\ origin[k] < q /\ styles[k].bold
        /\ \E k \in DOMAIN styles : origin[k] > q + 2 /\ ~styles[k].bold

(***************************************************************************)
(* C3: inheritance in the tree walks.                                      *)
(***************************************************************************)
\* C3: whenever a walk (HTML or Markdown) emits a character, every flag (bold,
\* italic, underline) that is true in the context of any element whose call is
\* active, that is of any ancestor A of the element B the character is emitted
\* from, is true in the emitted style.
C3_Monotonic ==
    [][ (pc \in {"html_walk", "md_walk"} /\ Len(styles') = Len(styles) + 1) =>
            \A j \in DOMAIN stack :
                /\ stack[j].bold => styles'[Len(styles')].bold
                /\ stack[j].italic => styles'[Len(styles')].italic
                /\ stack[j].underline => styles'[Len(styles')].underline ]_vars

\* C3 witness: the last character was emitted from an element nested two deep, under
\* an ancestor that turned bold on, and it is bold
C3_Witness ==
    /\ pc \in {"html_walk", "md_walk"}
    /\ Len(stack) >= 3
    /\ ~stack[1].bold
    /\ stack[2].bold
    /\ styles # <<>>
    /\ origin[Len(origin)] = Len(stack)
    /\ styles[Len(styles)].bold

(***************************************************************************)
(* C9: the text-leaf filter of the tree walks.                             *)
(***************************************************************************)
\* C9: in both walks the text is the characters of the leaves visited that are
\* non-whitespace or an ordinary space, in order, and the styles carry the same
\* characters: any other whitespace character is skipped.
C9_LeafFilter ==
    pc \in {"html_walk", "md_walk"} =>
        /\ text = SelectSeq(leaf_chars, KeepChar)
        /\ Len(styles) = Len(text)
        /\ \A k \in DOMAIN styles : KeepChar(styles[k].char[1])

(***************************************************************************)
(* C4, C5, C10: find_text.                                                 *)
(***************************************************************************)
\* a and b are equal up to case
CaseEq(a, b) == Lower(a) = Lower(b)

\* the positions of text at which word occurs, compared case-insensitively
Occurrences(txt, word) ==
    {p \in 0..(Len(txt) - Len(word)) : CaseEq(Slice(txt, p, p + Len(word)), word)}

\* the first of them at or after from, or -1
FirstOccurrence(txt, word, from) ==
    LET hits == {p \in Occurrences(txt, word) : p >= from}
    IN IF hits = {} THEN -1 ELSE CHOOSE p \in hits : \A r \in hits : p <= r

\* C4: if the phrase occurs in the text, compared case-insensitively, find_text
\* returns (pos, pos + len(phrase) - 1) with pos the first position of text where it
\* occurs, and the characters of text in that span equal the phrase up to case.
C4_ExactSpan ==
    (pc = "found" /\ Occurrences(haystack, needle) # {}) =>
        LET pos == FirstOccurrence(haystack, needle, 0)
        IN /\ result = Found(pos, pos + Len(needle) - 1)
           /\ CaseEq(Slice(haystack, result.start, result.end + 1), needle)

\* C5: when the phrase does not occur in the text, the result is the span from the
\* first occurrence of the phrase's first word to the end of the first occurrence of
\* its last word at or after that position, if the phrase has more than one word and
\* both occurrences exist, and not-found otherwise.
C5_Fallback ==
    (pc = "found" /\ Occurrences(haystack, needle) = {}) =>
        LET words == Split(needle)
            first == IF Len(words) > 1 THEN FirstOccurrence(haystack, words[1], 0) ELSE -1
            last == IF first >= 0
                    THEN FirstOccurrence(haystack, words[Len(words)], first)
                    ELSE -1
        IN IF last >= 0
           THEN result = Found(first, last + Len(words[Len(words)]) - 1)
           ELSE result = NotFound

\* C10: a match that find_text reports is a span of the text:
\* 0 <= start <= end < len(text).
C10_SpanInText ==
    (pc = "found" /\ result.found) =>
        /\ 0 <= result.start
        /\ result.start <= result.end
        /\ result.end < Len(haystack)

(***************************************************************************)
(* C6: the boundary lookup.                                                *)
(***************************************************************************)
\* C6: the before-style is styles[start - 1], and none exactly when start = 0; the
\* after-style is styles[end + 1], and none exactly when end + 1 is outside the
\* stream, and a none is rendered "Not found"; never the element at the other end of
\* the list.
C6_Boundary ==
    pc = "reported" =>
        /\ before_char = (IF start = 0 THEN None ELSE At(styles, start - 1))
        /\ (before_char = None) <=> (start = 0)
        /\ after_char = (IF end + 1 >= Len(styles) THEN None ELSE At(styles, end + 1))
        /\ (after_char = None) <=> (end + 1 >= Len(styles))
        /\ (style_to_string(before_char) = [text |-> "Not found"]) <=> (start = 0)
        /\ (style_to_string(after_char) = [text |-> "Not found"])
                <=> (end + 1 >= Len(styles))

\* C6 witness: a report on a match at the start of a longer stream, whose last
\* element is not the before-style
C6_Witness ==
    /\ pc = "reported"
    /\ start = 0
    /\ end + 1 < Len(styles)
    /\ before_char = None
    /\ after_char = At(styles, end + 1)

(***************************************************************************)
(* C7: the run flattener.                                                  *)
(***************************************************************************)
RECURSIVE ConcatAll(_)
ConcatAll(ss) == IF ss = <<>> THEN <<>> ELSE Head(ss) \o ConcatAll(Tail(ss))

\* one styled character per character of the run, carrying the run's attributes
RunStyles(r) ==
    [k \in 1..Len(r.text) |->
        [char |-> <<r.text[k]>>, bold |-> r.bold = "True", italic |-> r.italic = "True",
         underline |-> r.underline = "True",
         color |-> IF r.rgb = <<>> THEN "black" ELSE RgbString(r.rgb)]]

\* the paragraph's runs, then one unstyled newline
ParaStyles(p) ==
    ConcatAll([k \in 1..Len(p) |-> RunStyles(p[k])])
        \o <<[char |-> <<NL>>, bold |-> FALSE, italic |-> FALSE, underline |-> FALSE,
              color |-> "black"]>>

ParaText(p) == ConcatAll([k \in 1..Len(p) |-> p[k].text]) \o <<NL>>

\* C7: the flattened text is, paragraph by paragraph in order, the run texts followed
\* by one newline, and the styles are one per character, the run's for a run
\* character and the unstyled default for the newline; for the paragraph "Hello "
\* (unstyled) + "World" (bold) the text is "Hello World\n", "World" is found at (6, 10),
\* the before-style is the unstyled space and the after-style the unstyled newline.
C7_RunFlattener ==
    (fmt = ".docx" /\ pc = "done" /\ outcome = "returned") =>
        /\ text = ConcatAll([k \in 1..Len(doc) |-> ParaText(doc[k])])
        /\ styles = ConcatAll([k \in 1..Len(doc) |-> ParaStyles(doc[k])])
        /\ doc = HelloDoc =>
            LET found == find_text(text, <<"W", "o", "r", "l", "d">>)
            IN /\ text = <<"H", "e", "l", "l", "o", " ", "W", "o", "r", "l", "d", NL>>
               /\ found = Found(6, 10)
               /\ get_style_at(styles, found.start - 1) =
                    [char |-> <<" ">>, bold |-> FALSE, italic |-> FALSE,
                     underline |-> FALSE, color |-> "black"]
               /\ get_style_at(styles, found.end + 1) =
                    [char |-> <<NL>>, bold |-> FALSE, italic |-> FALSE,
                     underline |-> FALSE, color |-> "black"]

\* C7 witness: the "Hello " + "World" paragraph was flattened, its bold run and its
\* newline included
C7_Witness ==
    /\ fmt = ".docx"
    /\ pc = "done"
    /\ doc = HelloDoc
    /\ Len(styles) = 12
    /\ styles[7].bold
    /\ ~styles[12].bold

(***************************************************************************)
(* C1: text and styles stay aligned.                                       *)
(***************************************************************************)
\* C1: at every step of every producer, and in the result, text and styles have the
\* same length and styles[i].char is text[i].
C1_Aligned ==
    /\ Len(text) = Len(styles)
    /\ \A k \in DOMAIN styles : styles[k].char = <<text[k]>>

(***************************************************************************)
(* C8: decode failures.                                                    *)
(***************************************************************************)
\* C8: when the decoding of the file fails (after any fallback: the RTF fallback to
\* latin-1 takes any bytes, so an RTF decoding never does), load_file returns the
\* empty stream and raises nothing.
C8_DecodeFailure ==
    (pc = "done" /\ ~decodable /\ fmt \in Formats \ {".rtf", ".txt"}) =>
        /\ outcome = "returned"
        /\ text = <<>>
        /\ styles = <<>>

====
